---- MODULE Spec2Model ----
(***************************************************************************)
(* Model of yyprep's dicom2bids pipeline:                                  *)
(*   - yyprep.dicom2bids.convert.convert_dicom_to_bids                     *)
(*   - yyprep.dicom2bids.intended_for.update_intended_for                  *)
(*   - yyprep.cli.dicom2bids                                               *)
(* Strings are sequences of symbols; a path component and the separator    *)
(* "/" are one symbol each, so str.replace and pathlib's normalisation     *)
(* are computed on the symbols as Python computes them on characters.      *)
(***************************************************************************)
EXTENDS Integers, Sequences, FiniteSets, TLC

(* ------------------------------ bounds --------------------------------- *)
MaxRows == 2
MaxRuns == 2

(* ------------------------- strings and paths --------------------------- *)
SEP == "/"
NoStr == << >>

Range(s) == {s[i] : i \in 1..Len(s)}

IsPrefix(p, s) == Len(p) <= Len(s) /\ SubSeq(s, 1, Len(p)) = p

Drop(s, n) == SubSeq(s, n + 1, Len(s))

\* str.replace(old, new): every non-overlapping occurrence, left to right
RECURSIVE StrReplace(_, _, _)
StrReplace(s, old, new) ==
    IF s = << >> THEN << >>
    ELSE IF IsPrefix(old, s) THEN new \o StrReplace(Drop(s, Len(old)), old, new)
    ELSE <<Head(s)>> \o StrReplace(Tail(s), old, new)

\* pathlib.Path(s): repeated separators collapse, a trailing separator goes
RECURSIVE PathNorm(_)
PathNorm(s) ==
    IF Len(s) <= 1 THEN s
    ELSE IF s[1] = SEP /\ s[2] = SEP THEN PathNorm(Tail(s))
    ELSE IF s = <<s[1], SEP>> THEN <<s[1]>>
    ELSE <<Head(s)>> \o PathNorm(Tail(s))

\* the working directory of the process
Cwd == <<SEP, "w">>

\* Path.absolute(): a relative path is joined to the working directory
PathAbsolute(s) ==
    IF s # << >> /\ s[1] = SEP THEN PathNorm(s) ELSE PathNorm(Cwd \o <<SEP>> \o s)

(* --------------------------- Python values ----------------------------- *)
\* a value is tagged with its type; s is its text, rows its DataFrame rows
StrVal(s) == [kind |-> "str", s |-> s, rows |-> << >>]
PathVal(s) == [kind |-> "Path", s |-> PathNorm(s), rows |-> << >>]
FrameVal(rows) == [kind |-> "DataFrame", s |-> NoStr, rows |-> rows]
NoVal == [kind |-> "None", s |-> NoStr, rows |-> << >>]

\* str(v) of a str or Path
Str(v) == v.s

\* Path(v) accepts str and Path, anything else is a TypeError
IsPathLike(v) == v.kind \in {"str", "Path"}


(* --------------------------- the BIDS dataset -------------------------- *)
\* the files of the dataset tree: path relative to the dataset root and the
\* entities the index derives from it
File(sub, ses, dt, name, ext) ==
    [rel |-> <<"sub-", sub, SEP, "ses-", ses, SEP, dt, SEP, name>>,
     subject |-> sub, session |-> ses, datatype |-> dt, extension |-> ext]

Tree ==
    << File("01", "a", "fmap", "m1.json", "json"),
       File("01", "a", "fmap", "m2.json", "json"),
       File("01", "b", "fmap", "m3.json", "json"),
       File("03", "a", "fmap", "m4.json", "json"),
       File("01", "a", "func", "f1.nii.gz", "nii.gz"),
       File("01", "b", "func", "f3.nii.gz", "nii.gz"),
       File("01", "b", "func", "f4.nii.gz", "nii.gz"),
       File("02", "a", "func", "f5.nii.gz", "nii.gz"),
       File("01", "a", "func", "f1.json", "json"),
       File("01", "a", "fmap", "m1.nii.gz", "nii.gz") >>

FileIds == DOMAIN Tree

\* BIDSLayout(root): the index keeps the absolute root
BIDSLayout(bids_path) == PathAbsolute(Str(bids_path))

\* BIDSFile.path: the absolute path of an indexed file
FilePath(root, f) == root \o <<SEP>> \o Tree[f].rel

\* the ids in S in ascending order (layout.get returns a sorted list)
RECURSIVE SortedSeq(_)
SortedSeq(S) ==
    IF S = {} THEN << >>
    ELSE LET m == CHOOSE x \in S : \A y \in S : x <= y
         IN <<m>> \o SortedSeq(S \ {m})

\* Python's None
None == "<None>"

\* what the installed index takes a filter value of None to mean: "absent"
\* (only files without the entity match) or "any" (the filter is ignored)
VARIABLE noneFilter

\* one entity filter of layout.get; every file of Tree has a session
SessionMatches(f, ses) ==
    IF ses = None THEN noneFilter = "any" ELSE Tree[f].session = ses

\* the files that pass the four filters of a query
LayoutMatches(sub, ses, dt, ext) ==
    {f \in FileIds : /\ Tree[f].subject = sub
                     /\ SessionMatches(f, ses)
                     /\ Tree[f].datatype = dt
                     /\ Tree[f].extension = ext}

\* layout.get(subject=, session=, datatype=, extension=)
LayoutGet(sub, ses, dt, ext) == SortedSeq(LayoutMatches(sub, ses, dt, ext))

(* ------------------------------ manifest ------------------------------- *)
Row(sub, ses) ==
    [subject_code |-> sub, session_id |-> ses, dicom_path |-> <<SEP, "dcm", SEP, sub>>]

\* a row of a manifest that has no session_id column
RowNoSession(sub) == [subject_code |-> sub, dicom_path |-> <<SEP, "dcm", SEP, sub>>]

\* row[key]: a KeyError when the key is missing
HasKey(row, key) == key \in DOMAIN row

\* row.get(key, default)
RowGet(row, key, default) == IF HasKey(row, key) THEN row[key] ELSE default

\* the one-row manifests without a session_id column
SessionlessManifests == {<<RowNoSession(sub)>> : sub \in {"01", "02", "03"}}

RowTypes == {Row("01", "a"), Row("01", "b"), Row("02", "a"), Row("03", "a")}

RECURSIVE SeqsUpTo(_, _)
SeqsUpTo(S, n) ==
    IF n = 0 THEN {<< >>}
    ELSE LET shorter == SeqsUpTo(S, n - 1)
         IN shorter \cup {Append(q, x) : q \in shorter, x \in S}

Manifests == SeqsUpTo(RowTypes, MaxRows)


(* ------------------- update_intended_for: the pieces ------------------- *)
BIDS_URI == "bids::"

\* f.path.replace(str(bids_path) + "/", "")
RelativeTo(path, bids_path) == StrReplace(path, Str(bids_path) \o <<SEP>>, << >>)

\* funcs_addition: "bids::" + the stripped path of every matched functional file
FuncsAddition(root, bids_path, funcs) ==
    [i \in 1..Len(funcs) |-> <<BIDS_URI>> \o RelativeTo(FilePath(root, funcs[i]), bids_path)]

\* a slip: the scope marker is put on the entries already in the sidecar too
GetIntendedForPrefixed(data) ==
    [i \in 1..Len(data.IntendedFor) |-> <<BIDS_URI>> \o data.IntendedFor[i]]

\* data.get("IntendedFor", [])
GetIntendedFor(data) == IF data.hasIF THEN data.IntendedFor ELSE << >>

\* a slip: the list is written as concatenated, duplicates kept
ListKeepAll(l) == {l}

\* list(set(l)): the distinct elements of l, in an order the build chooses
ListOfSet(l) == {q \in [1..Cardinality(Range(l)) -> Range(l)] : Range(q) = Range(l)}

\* a slip: the new entries replace the old ones
MergeOverwrite(prior, addition) == ListOfSet(addition)

\* the lists that fmap_intended_for may be after line 41
MergeIntendedFor(prior, addition) == ListOfSet(prior \o addition)

\* a slip: a sidecar that does not parse is taken as it is and the run goes on
JsonLoadNeverRaises(f, bad) == FALSE

\* json.load(f) raises on a file whose content is not JSON
JsonLoadRaises(f, bad) == f \in bad

\* a slip: a fresh document with the one key is written
PatchedDataOnlyKey(data, intended_for) ==
    [hasIF |-> TRUE, IntendedFor |-> intended_for, other |-> ""]

\* data["IntendedFor"] = fmap_intended_for; json.dump(data, f, indent=4)
PatchedData(data, intended_for) ==
    [data EXCEPT !.hasIF = TRUE, !.IntendedFor = intended_for]


(* ----------------- convert_dicom_to_bids: the pieces ------------------- *)
\* a slip: the heuristic is not tested
TemplateExistsOnly(template_exists, heuristic_exists) == template_exists

\* both existence tests of lines 31 and 33 pass
PathsExist(template_exists, heuristic_exists) == template_exists /\ heuristic_exists

\* str has a format method, pathlib.Path has none
HasFormat(v) == v.kind = "str"

\* heudiconv_cmd_template.format(...), plus " --overwrite" when asked
FormatCmd(template, row, bids_path, heuristic, overwrite) ==
    [template |-> Str(template),
     dicom_directory |-> PathNorm(row.dicom_path),
     subject_id |-> row.subject_code,
     session_id |-> row.session_id,
     output_directory |-> Str(bids_path),
     heuristic |-> Str(heuristic),
     overwrite |-> overwrite]

\* convert_dicom_to_bids(df=, heudiconv_cmd_template=, overwrite=, heuristic=, bids_path=)
ConvertArgs(df, template, heuristic, bids_path, overwrite) ==
    [df |-> df, heudiconv_cmd_template |-> template, heuristic |-> heuristic,
     bids_path |-> bids_path, overwrite |-> overwrite]

\* update_intended_for(df, bids_path) called with two positional arguments
UpdateArgs(first, second) == [df |-> first, bids_path |-> second]

\* a slip: the flag is not looked at
DryRunIgnored(dry_run) == FALSE

\* if dry_run: ... return
DryRunReturns(dry_run) == dry_run

(* ------------------------- fmriprep: the pieces ------------------------ *)
\* the values the fmriprep command handles: a bool, None, a str, and the
\* OptionInfo object typer.Option(...) returns
BoolVal(b) == [kind |-> "bool", b |-> b]
NoneVal == [kind |-> "None", b |-> FALSE]
TextVal == [kind |-> "str", b |-> TRUE]
TyperOption(default) == [kind |-> "OptionInfo", b |-> TRUE]

\* truth value of `if v:`; an object without __bool__ and __len__ is true
Truthy(v) == IF v.kind = "bool" THEN v.b ELSE v.kind # "None"

\* Path(v) of the values above
PathAccepts(v) == v.kind = "str"

\* the effects of a run so far
Effects(dirs, created, ran) == [mkdirs |-> dirs, workflow |-> created, ran |-> ran]

(* ------------------------------- state --------------------------------- *)
VARIABLES
    entry,          \* the function the caller invoked
    disk,           \* content of every file of the dataset
    corrupt,        \* the files whose content is not JSON
    datasetValid,   \* the tree passes BIDS validation
    templateExists, \* Path(heudiconv_cmd_template).exists()
    heuristicExists,\* Path(heuristic).exists()
    exitStatus,     \* exit status the conversion of row i would end with
    opts,           \* dicom2bids: the command line options
    cpc,            \* dicom2bids: position
    c_df,           \* dicom2bids: df
    v_args,         \* convert_dicom_to_bids: arguments
    vpc,            \* convert_dicom_to_bids: position
    v_tmpl,         \* convert_dicom_to_bids: heudiconv_cmd_template after line 30
    v_i,            \* convert_dicom_to_bids: row of the loop
    procs,          \* commands handed to subprocess.run, in order
    u_args,         \* update_intended_for: arguments
    upc,            \* update_intended_for: position
    u_root,         \* update_intended_for: root of layout
    u_i,            \* update_intended_for: row of the outer loop
    u_fmaps,        \* update_intended_for: fmaps still to patch for the row
    u_add,          \* update_intended_for: funcs_addition of the row
    runs,           \* update_intended_for: calls made so far
    exc,            \* the exception that ended the call, or "none"
    reads,          \* files opened for reading, per file
    writes,         \* files opened for writing, per file
    runStart,       \* View(disk) when the current update_intended_for call started
    prevEnd,        \* View(disk) when the previous update_intended_for call returned
    last,           \* the latest sidecar patched: file, content before, additions
    f_opts,         \* fmriprep: the parameters as typer passes them
    f_locals,       \* fmriprep: the parameters as the body sees them
    fpc,            \* fmriprep: position
    f_fx,           \* fmriprep: directories made, workflow created, workflow run
    runFails        \* workflow.run() would raise

vars == <<entry, disk, corrupt, noneFilter, datasetValid, templateExists, heuristicExists, exitStatus,
          opts, cpc, c_df, v_args, vpc, v_tmpl, v_i, procs,
          u_args, upc, u_root, u_i, u_fmaps, u_add, runs,
          exc, reads, writes, runStart, prevEnd, last,
          f_opts, f_locals, fpc, f_fx, runFails>>

fmVars == <<f_opts, f_locals, fpc, f_fx, runFails>>

\* what no step of the dicom2bids functions changes
envVars == <<entry, corrupt, noneFilter, datasetValid, templateExists, heuristicExists,
             exitStatus, opts, fmVars>>
cliVars == <<cpc, c_df>>
convVars == <<v_args, vpc, v_tmpl, v_i, procs>>
uifVars == <<u_args, upc, u_root, u_i, u_fmaps, u_add, runs, runStart, prevEnd, last>>
ioVars == <<disk, reads, writes>>


(* ------------------------------- Init ---------------------------------- *)
FileNamed(name) == CHOOSE f \in FileIds : Tree[f].rel[Len(Tree[f].rel)] = name

\* the dataset-relative reference of a file, as a sidecar stores it
Ref(f) == <<BIDS_URI>> \o Tree[f].rel

OtherRef == <<BIDS_URI, "sub-", "01", SEP, "ses-", "a", SEP, "func", SEP, "other.nii.gz">>

Data(has, l, name) == [hasIF |-> has, IntendedFor |-> l, other |-> name]

\* contents a dataset can hold before reconciliation: IntendedFor absent,
\* empty, already holding a scan's reference, or holding an unrelated one
M1Contents ==
    { Data(FALSE, << >>, "m1"), Data(TRUE, << >>, "m1"),
      Data(TRUE, <<Ref(FileNamed("f1.nii.gz"))>>, "m1"),
      Data(TRUE, <<Ref(FileNamed("f1.nii.gz")), OtherRef>>, "m1") }

DiskWith(m1) ==
    [f \in FileIds |->
        IF f = FileNamed("m1.json") THEN m1
        ELSE IF f = FileNamed("m2.json") THEN Data(TRUE, <<OtherRef>>, "m2")
        ELSE IF f = FileNamed("m3.json") THEN Data(TRUE, << >>, "m3")
        ELSE IF f = FileNamed("m4.json") THEN Data(TRUE, <<OtherRef>>, "m4")
        ELSE Data(FALSE, << >>, Tree[f].rel[Len(Tree[f].rel)])]

InitialDisks == {DiskWith(m1) : m1 \in M1Contents}

DefaultDisk == DiskWith(Data(TRUE, << >>, "m1"))

\* what a file holds, its IntendedFor taken as a set
ViewOf(data) == [hasIF |-> data.hasIF, set |-> Range(data.IntendedFor), other |-> data.other]
View(d) == [f \in FileIds |-> ViewOf(d[f])]

\* the forms the caller may give the dataset root in
RootForms ==
    { StrVal(<<SEP, "d">>), StrVal(<<SEP, "d", SEP>>), PathVal(<<SEP, "d", SEP>>),
      StrVal(<<"d">>), StrVal(<<SEP, "func">>) }

BidsDir == StrVal(<<SEP, "d">>)
HeuristicFile == StrVal(<<SEP, "h", SEP, "heuristic.py">>)
TemplateFile == <<SEP, "h", SEP, "template.txt">>

NoArgs == [df |-> NoVal, heudiconv_cmd_template |-> NoVal, heuristic |-> NoVal,
           bids_path |-> NoVal, overwrite |-> FALSE]
NoOpts == [csv |-> << >>, bids_dir |-> NoVal, heuristic |-> NoVal,
           heudiconv_template |-> NoVal, overwrite |-> FALSE,
           skip_intendedfor |-> FALSE, dry_run |-> FALSE]
NoLast == [file |-> 0, before |-> ViewOf(Data(FALSE, << >>, "")), add |-> << >>]

\* the state when the caller enters function e with the given environment
Start(e, d, valid, tex, hex, status, o, va, ua) ==
    /\ entry = e
    /\ disk = d
    /\ datasetValid = valid
    /\ templateExists = tex /\ heuristicExists = hex
    /\ exitStatus = status
    /\ opts = o
    /\ cpc = IF e = "dicom2bids" THEN "start" ELSE "idle"
    /\ c_df = NoVal
    /\ v_args = va
    /\ vpc = IF e = "convert_dicom_to_bids" THEN "validate" ELSE "idle"
    /\ v_tmpl = NoVal /\ v_i = 0 /\ procs = << >>
    /\ u_args = ua
    /\ upc = IF e = "update_intended_for" THEN "open" ELSE "idle"
    /\ u_root = NoStr /\ u_i = 0 /\ u_fmaps = << >> /\ u_add = << >>
    /\ runs = IF e = "update_intended_for" THEN 1 ELSE 0
    /\ exc = "none"
    /\ reads = [f \in FileIds |-> 0] /\ writes = [f \in FileIds |-> 0]
    /\ runStart = View(d) /\ prevEnd = View(d) /\ last = NoLast

AllPass == [i \in 1..MaxRows |-> 0]

NoParams == [dry_run |-> NoneVal, work_dir |-> NoneVal]

\* the fmriprep command is not running
FmIdle ==
    /\ f_opts = NoParams /\ f_locals = NoParams /\ fpc = "idle"
    /\ f_fx = Effects({}, FALSE, FALSE) /\ runFails = FALSE

\* the sidecars that may be malformed before a run: none, the first or the
\* second fieldmap of sub-01/ses-a
CorruptChoices == {{}, {FileNamed("m1.json")}, {FileNamed("m2.json")}}

\* the caller invokes update_intended_for(df, bids_path); a malformed sidecar
\* is tried with the root in its plain form on a valid dataset
InitUpdate ==
    \E d \in InitialDisks, valid \in BOOLEAN, m \in Manifests, r \in RootForms,
       bad \in CorruptChoices :
        /\ Start("update_intended_for", d, valid, TRUE, TRUE, AllPass, NoOpts, NoArgs,
                 UpdateArgs(FrameVal(m), r))
        /\ corrupt = bad
        /\ bad # {} => (r = BidsDir /\ valid)
        /\ noneFilter = "absent"
        /\ FmIdle

\* the same call with a manifest that has no session_id column
InitUpdateSessionless ==
    \E m \in SessionlessManifests, nf \in {"absent", "any"} :
        /\ Start("update_intended_for", DefaultDisk, TRUE, TRUE, TRUE, AllPass, NoOpts,
                 NoArgs, UpdateArgs(FrameVal(m), BidsDir))
        /\ corrupt = {}
        /\ noneFilter = nf
        /\ FmIdle

\* the caller invokes convert_dicom_to_bids(df, template, heuristic, bids_path, overwrite)
InitConvert ==
    \E tex \in BOOLEAN, hex \in BOOLEAN, status \in [1..MaxRows -> {0, 1}],
       m \in Manifests \cup SessionlessManifests,
       t \in {StrVal(TemplateFile), PathVal(TemplateFile)},
       ow \in BOOLEAN :
        /\ Start("convert_dicom_to_bids", DefaultDisk, TRUE, tex, hex, status, NoOpts,
                 ConvertArgs(FrameVal(m), t, HeuristicFile, BidsDir, ow),
                 UpdateArgs(NoVal, NoVal))
        /\ corrupt = {}
        /\ noneFilter = "absent"
        /\ FmIdle

\* the user runs the dicom2bids command
InitCli ==
    \E tex \in BOOLEAN, hex \in BOOLEAN, status \in [1..MaxRows -> {0, 1}],
       m \in Manifests, ow \in BOOLEAN, skip \in BOOLEAN, dry \in BOOLEAN :
        /\ Start("dicom2bids", DefaultDisk, TRUE, tex, hex, status,
                 [csv |-> m, bids_dir |-> BidsDir, heuristic |-> HeuristicFile,
                  heudiconv_template |-> StrVal(TemplateFile), overwrite |-> ow,
                  skip_intendedfor |-> skip, dry_run |-> dry],
                 NoArgs, UpdateArgs(NoVal, NoVal))
        /\ corrupt = {}
        /\ noneFilter = "absent"
        /\ FmIdle

\* the user runs the fmriprep command
InitFmriprep ==
    \E dry \in BOOLEAN, wd \in {NoneVal, TextVal}, fails \in BOOLEAN :
        /\ Start("fmriprep", DefaultDisk, TRUE, TRUE, TRUE, AllPass, NoOpts, NoArgs,
                 UpdateArgs(NoVal, NoVal))
        /\ corrupt = {}
        /\ noneFilter = "absent"
        /\ f_opts = [dry_run |-> BoolVal(dry), work_dir |-> wd]
        /\ f_locals = [dry_run |-> BoolVal(dry), work_dir |-> wd]
        /\ fpc = "start"
        /\ f_fx = Effects({}, FALSE, FALSE)
        /\ runFails = fails

Init == InitUpdate \/ InitUpdateSessionless \/ InitConvert \/ InitCli \/ InitFmriprep

(* -------------------- exceptions and the call stack -------------------- *)
\* an exception raised in a callee of dicom2bids is not caught there either
CliAfterRaise == IF entry = "dicom2bids" THEN "raised" ELSE cpc

(* ------------------------ update_intended_for -------------------------- *)
\* line 19: layout = BIDSLayout(bids_path, validate=True)
UifOpen ==
    /\ upc = "open"
    /\ IF ~IsPathLike(u_args.bids_path)
       THEN /\ exc' = "TypeError" /\ upc' = "raised" /\ cpc' = CliAfterRaise
            /\ UNCHANGED <<u_root, u_i>>
       ELSE IF ~datasetValid
       THEN /\ exc' = "BIDSValidationError" /\ upc' = "raised" /\ cpc' = CliAfterRaise
            /\ UNCHANGED <<u_root, u_i>>
       ELSE /\ u_root' = BIDSLayout(u_args.bids_path)
            /\ u_i' = 1
            /\ upc' = "row"
            /\ UNCHANGED <<exc, cpc>>
    /\ UNCHANGED <<envVars, c_df, convVars, ioVars,
                   u_args, u_fmaps, u_add, runs, runStart, prevEnd, last>>

\* lines 21-34: the next row, its two queries and funcs_addition
UifRow ==
    /\ upc = "row"
    /\ u_i <= Len(u_args.df.rows)
    /\ LET row == u_args.df.rows[u_i]
           subject == row.subject_code
           session == RowGet(row, "session_id", None)
           fmaps == LayoutGet(subject, session, "fmap", "json")
           funcs_to_include == LayoutGet(subject, session, "func", "nii.gz")
       IN /\ u_add' = FuncsAddition(u_root, u_args.bids_path, funcs_to_include)
          /\ u_fmaps' = fmaps
          /\ IF fmaps = << >>
             THEN u_i' = u_i + 1 /\ upc' = "row"
             ELSE u_i' = u_i /\ upc' = "fmap"
    /\ UNCHANGED <<envVars, cliVars, convVars, ioVars, exc,
                   u_args, u_root, runs, runStart, prevEnd, last>>

\* lines 36-45: read one sidecar, merge, write it back
UifFmap ==
    /\ upc = "fmap"
    /\ u_fmaps # << >>
    /\ LET fmap == Head(u_fmaps)
           data == disk[fmap]
       IN /\ reads' = [reads EXCEPT ![fmap] = @ + 1]
          /\ IF JsonLoadRaises(fmap, corrupt)
             THEN /\ exc' = "JSONDecodeError" /\ upc' = "raised" /\ cpc' = CliAfterRaise
                  /\ UNCHANGED <<disk, writes, last, u_fmaps, u_i>>
             ELSE /\ \E fmap_intended_for \in
                         MergeIntendedFor(GetIntendedFor(data), u_add) :
                       disk' = [disk EXCEPT ![fmap] = PatchedData(data, fmap_intended_for)]
                  /\ writes' = [writes EXCEPT ![fmap] = @ + 1]
                  /\ last' = [file |-> fmap, before |-> ViewOf(data), add |-> u_add]
                  /\ u_fmaps' = Tail(u_fmaps)
                  /\ IF Tail(u_fmaps) = << >>
                     THEN u_i' = u_i + 1 /\ upc' = "row"
                     ELSE u_i' = u_i /\ upc' = "fmap"
                  /\ UNCHANGED <<exc, cpc>>
    /\ UNCHANGED <<envVars, c_df, convVars,
                   u_args, u_root, u_add, runs, runStart, prevEnd>>

\* the loop of line 21 is exhausted: the function returns
UifReturn ==
    /\ upc = "row"
    /\ u_i > Len(u_args.df.rows)
    /\ upc' = "returned"
    /\ cpc' = IF entry = "dicom2bids" THEN "done" ELSE cpc
    /\ UNCHANGED <<envVars, c_df, convVars, ioVars, exc,
                   u_args, u_root, u_i, u_fmaps, u_add, runs, runStart, prevEnd, last>>

\* the caller runs update_intended_for again with the same arguments
UifAgain ==
    /\ entry = "update_intended_for"
    /\ upc = "returned"
    /\ runs < MaxRuns
    /\ runs' = runs + 1
    /\ upc' = "open"
    /\ prevEnd' = View(disk)
    /\ runStart' = View(disk)
    /\ u_root' = NoStr /\ u_i' = 0 /\ u_fmaps' = << >> /\ u_add' = << >>
    /\ UNCHANGED <<envVars, cliVars, convVars, ioVars, exc, u_args, last>>


(* ----------------------- convert_dicom_to_bids ------------------------- *)
\* lines 30-34: the template becomes a Path; both files must exist
ConvValidate ==
    /\ vpc = "validate"
    /\ v_tmpl' = PathVal(Str(v_args.heudiconv_cmd_template))
    /\ IF PathsExist(templateExists, heuristicExists)
       THEN /\ vpc' = "rows" /\ v_i' = 1
            /\ UNCHANGED <<exc, cpc>>
       ELSE /\ exc' = "FileNotFoundError" /\ vpc' = "raised" /\ cpc' = CliAfterRaise
            /\ UNCHANGED v_i
    /\ UNCHANGED <<envVars, c_df, v_args, procs, uifVars, ioVars>>

\* lines 35-49: format the command of the next row and run it
ConvRow ==
    /\ vpc = "rows"
    /\ v_i <= Len(v_args.df.rows)
    /\ LET row == v_args.df.rows[v_i]
       IN IF ~HasKey(row, "session_id")
          THEN /\ exc' = "KeyError" /\ vpc' = "raised" /\ cpc' = CliAfterRaise
               /\ UNCHANGED <<procs, v_i>>
          ELSE IF ~HasFormat(v_tmpl)
          THEN /\ exc' = "AttributeError" /\ vpc' = "raised" /\ cpc' = CliAfterRaise
               /\ UNCHANGED <<procs, v_i>>
          ELSE /\ procs' = Append(procs, FormatCmd(v_tmpl, row, v_args.bids_path,
                                                  v_args.heuristic, v_args.overwrite))
               /\ IF exitStatus[v_i] # 0
                  THEN /\ exc' = "CalledProcessError" /\ vpc' = "raised"
                       /\ cpc' = CliAfterRaise
                       /\ UNCHANGED v_i
                  ELSE /\ v_i' = v_i + 1
                       /\ UNCHANGED <<exc, vpc, cpc>>
    /\ UNCHANGED <<envVars, c_df, v_args, v_tmpl, uifVars, ioVars>>

\* the loop of line 35 is exhausted: the function returns
ConvReturn ==
    /\ vpc = "rows"
    /\ v_i > Len(v_args.df.rows)
    /\ vpc' = "returned"
    /\ cpc' = IF entry = "dicom2bids" THEN "converted" ELSE cpc
    /\ UNCHANGED <<envVars, c_df, v_args, v_tmpl, v_i, procs, uifVars, ioVars, exc>>

(* ------------------------------ dicom2bids ----------------------------- *)
\* cli.py line 44: df = pd.read_csv(participants_csv)
CliLoad ==
    /\ cpc = "start"
    /\ c_df' = FrameVal(opts.csv)
    /\ cpc' = "loaded"
    /\ UNCHANGED <<envVars, convVars, uifVars, ioVars, exc>>

\* cli.py lines 46-50: report the intent and return
CliDryRun ==
    /\ cpc = "loaded"
    /\ DryRunReturns(opts.dry_run)
    /\ cpc' = "done"
    /\ UNCHANGED <<envVars, c_df, convVars, uifVars, ioVars, exc>>

\* cli.py lines 52-59: call convert_dicom_to_bids
CliConvert ==
    /\ cpc = "loaded"
    /\ ~DryRunReturns(opts.dry_run)
    /\ v_args' = ConvertArgs(c_df, opts.heudiconv_template, opts.heuristic,
                             opts.bids_dir, opts.overwrite)
    /\ vpc' = "validate"
    /\ cpc' = "converting"
    /\ UNCHANGED <<envVars, c_df, v_tmpl, v_i, procs, uifVars, ioVars, exc>>

\* cli.py lines 60-62: update_intended_for(bids_dir, df) unless skipped
CliReconcile ==
    /\ cpc = "converted"
    /\ IF ~opts.skip_intendedfor
       THEN /\ u_args' = UpdateArgs(opts.bids_dir, c_df)
            /\ upc' = "open"
            /\ runs' = 1
            /\ runStart' = View(disk)
            /\ cpc' = "reconciling"
       ELSE /\ cpc' = "done"
            /\ UNCHANGED <<u_args, upc, runs, runStart>>
    /\ UNCHANGED <<envVars, c_df, convVars, ioVars, exc,
                   u_root, u_i, u_fmaps, u_add, prevEnd, last>>

(* ------------------------------- fmriprep ------------------------------ *)
dicomVars == <<entry, disk, corrupt, noneFilter, datasetValid, templateExists,
               heuristicExists, exitStatus, opts, cpc, c_df, v_args, vpc, v_tmpl, v_i,
               procs, u_args, upc, u_root, u_i, u_fmaps, u_add, runs,
               reads, writes, runStart, prevEnd, last>>

\* cli.py lines 84-117: every parameter is assigned typer.Option(...)
FmriprepBind ==
    /\ fpc = "start"
    /\ f_locals' = [dry_run |-> TyperOption(FALSE), work_dir |-> TyperOption(NoneVal)]
    /\ fpc' = "bound"
    /\ UNCHANGED <<dicomVars, exc, f_opts, f_fx, runFails>>

\* cli.py lines 121-164: the dry-run test, the directories, the workflow, its run
FmriprepBody ==
    /\ fpc = "bound"
    /\ IF Truthy(f_locals.dry_run)
       THEN /\ fpc' = "returned"
            /\ UNCHANGED <<f_fx, exc>>
       ELSE IF Truthy(f_locals.work_dir) /\ ~PathAccepts(f_locals.work_dir)
       THEN /\ exc' = "TypeError" /\ fpc' = "raised"
            /\ UNCHANGED f_fx
       ELSE /\ f_fx' = Effects((IF Truthy(f_locals.work_dir) THEN {"work_dir"} ELSE {})
                                   \cup {"output_dir"}, TRUE, TRUE)
            /\ fpc' = IF runFails THEN "exit1" ELSE "returned"
            /\ UNCHANGED exc
    /\ UNCHANGED <<dicomVars, f_opts, f_locals, runFails>>

(* ---------------------------- specification ---------------------------- *)
Next ==
    \/ UifOpen
    \/ UifRow
    \/ UifFmap
    \/ UifReturn
    \/ UifAgain
    \/ ConvValidate
    \/ ConvRow
    \/ ConvReturn
    \/ CliLoad
    \/ CliDryRun
    \/ CliConvert
    \/ CliReconcile
    \/ FmriprepBind
    \/ FmriprepBody

Spec == Init /\ [][Next]_vars

TypeOK ==
    /\ entry \in {"update_intended_for", "convert_dicom_to_bids", "dicom2bids", "fmriprep"}
    /\ fpc \in {"idle", "start", "bound", "returned", "raised", "exit1"}
    /\ upc \in {"idle", "open", "row", "fmap", "returned", "raised"}
    /\ vpc \in {"idle", "validate", "rows", "returned", "raised"}
    /\ cpc \in {"idle", "start", "loaded", "converting", "converted", "reconciling",
                "done", "raised"}
    /\ runs \in 0..MaxRuns


(* ------------------------------ the claims ----------------------------- *)
Rows == u_args.df.rows

FmapsOfRow(row) ==
    LayoutMatches(row.subject_code, RowGet(row, "session_id", None), "fmap", "json")
FuncsOfRow(row) ==
    LayoutMatches(row.subject_code, RowGet(row, "session_id", None), "func", "nii.gz")

\* how many rows of the manifest match sidecar f
RECURSIVE MatchCount(_, _)
MatchCount(rows, f) ==
    IF rows = << >> THEN 0
    ELSE (IF f \in FmapsOfRow(Head(rows)) THEN 1 ELSE 0) + MatchCount(Tail(rows), f)

Direct == entry = "update_intended_for"

\* C1: after update_intended_for has returned, every sidecar matched by a row
\* holds "bids::" + the dataset-relative path of every functional file
\* matched by that row, whatever form the root was given in.
C1_Completeness ==
    (Direct /\ upc = "returned") =>
        \A i \in 1..Len(Rows) :
            \A m \in FmapsOfRow(Rows[i]), f \in FuncsOfRow(Rows[i]) :
                Ref(f) \in Range(disk[m].IntendedFor)

\* C2: at every point of a run every sidecar's IntendedFor set contains the
\* set it held when the run started.
C2_UnionMonotonic ==
    \A f \in FileIds : runStart[f].set \subseteq Range(disk[f].IntendedFor)

C2_Witness ==
    /\ Direct /\ upc = "returned" /\ runs = 1
    /\ writes[FileNamed("m1.json")] = 2
    /\ runStart[FileNamed("m1.json")].set = {Ref(FileNamed("f1.nii.gz")), OtherRef}
    /\ OtherRef \in Range(disk[FileNamed("m1.json")].IntendedFor)

\* C3: throughout a second run on the same dataset and manifest every
\* sidecar's IntendedFor set equals the set it held after the first run.
C3_Idempotent ==
    (Direct /\ runs >= 2) =>
        \A f \in FileIds : Range(disk[f].IntendedFor) = prevEnd[f].set

C3_Witness ==
    /\ Direct /\ runs = 2 /\ upc = "returned"
    /\ writes[FileNamed("m1.json")] >= 2
    /\ writes[FileNamed("m3.json")] >= 2
    /\ prevEnd[FileNamed("m3.json")].set # {}

\* C4: with the template or the heuristic missing the call ends with the
\* missing-file error and no process has been spawned, for every manifest.
C4_ValidateFirst ==
    (~(templateExists /\ heuristicExists)) =>
        /\ procs = << >>
        /\ vpc \in {"idle", "validate", "raised"}
        /\ vpc = "raised" => exc = "FileNotFoundError"

C4_Witness ==
    /\ vpc = "raised" /\ templateExists /\ ~heuristicExists
    /\ Len(v_args.df.rows) > 0 /\ procs = << >>

ConvEnded == vpc \in {"returned", "raised"}
ConvRows == v_args.df.rows

\* C5: with both files present and every conversion exiting zero, the call
\* returns having run one command per row, in manifest order, each the
\* template with the row's and the run's values substituted.
C5_OnePerRow ==
    (/\ ConvEnded /\ templateExists /\ heuristicExists
     /\ \A i \in 1..Len(ConvRows) : exitStatus[i] = 0) =>
        /\ vpc = "returned"
        /\ Len(procs) = Len(ConvRows)
        /\ \A i \in 1..Len(procs) :
              procs[i] = FormatCmd(v_args.heudiconv_cmd_template, ConvRows[i],
                                   v_args.bids_path, v_args.heuristic, v_args.overwrite)

\* C6: when the conversion of row i exits non-zero the call ends with the
\* conversion error, row i's command ran once and no later row's ran.
C6_FailFast ==
    \A i \in 1..Len(ConvRows) :
        (/\ ConvEnded /\ templateExists /\ heuristicExists
         /\ exitStatus[i] # 0 /\ \A j \in 1..(i - 1) : exitStatus[j] = 0) =>
            /\ exc = "CalledProcessError"
            /\ Len(procs) = i

\* C7: in a dicom2bids run without --dry-run and --skip-intendedfor the
\* reconciler starts only after the conversion has returned, is given
\* --bids-dir as the dataset root and the manifest as its rows, and on a
\* valid dataset does not fail.
C7_ReconcileAfterConvert ==
    (entry = "dicom2bids" /\ upc # "idle") =>
        /\ vpc = "returned"
        /\ u_args.bids_path = opts.bids_dir
        /\ u_args.df = c_df
        /\ datasetValid => upc # "raised"

\* C8: with --dry-run no process is spawned, no file is read or written and
\* no error is raised, whatever the other options and the filesystem are.
C8_DryRunNoExecution ==
    (entry = "dicom2bids" /\ opts.dry_run) =>
        /\ procs = << >>
        /\ \A f \in FileIds : reads[f] = 0 /\ writes[f] = 0
        /\ disk = DefaultDisk
        /\ exc = "none"
        /\ vpc = "idle" /\ upc = "idle"

C8_Witness ==
    /\ entry = "dicom2bids" /\ opts.dry_run /\ cpc = "done"
    /\ ~templateExists /\ ~opts.skip_intendedfor /\ Len(opts.csv) > 0

\* C9: a run changes nothing but the IntendedFor of the sidecars matched by
\* some row: other keys keep their value, unmatched files are not written,
\* a sidecar is written once per matching row, and a row without fieldmaps
\* writes nothing and raises nothing.
C9_Frame ==
    Direct =>
        /\ \A f \in FileIds :
              LET n == MatchCount(Rows, f)
              IN /\ disk[f].other = runStart[f].other
                 /\ writes[f] <= runs * n
                 /\ upc = "returned" => writes[f] = runs * n
                 /\ n = 0 => ViewOf(disk[f]) = runStart[f]
        /\ (datasetValid /\ \A f \in corrupt : MatchCount(Rows, f) = 0) => exc = "none"

C9_Witness ==
    /\ Direct /\ upc = "returned" /\ runs = 1
    /\ \E i \in 1..Len(Rows) : FmapsOfRow(Rows[i]) = {}
    /\ \E i \in 1..Len(Rows) : FmapsOfRow(Rows[i]) # {}
    /\ writes[FileNamed("m1.json")] = 1
    /\ ViewOf(disk[FileNamed("m1.json")]) # runStart[FileNamed("m1.json")]

\* C10: a sidecar just patched holds a list without duplicates whose set is
\* the entries it held before (none if the key was absent) united with the
\* references computed for the row.
C10_ExactUnion ==
    last.file # 0 =>
        LET l == disk[last.file].IntendedFor
        IN /\ disk[last.file].hasIF
           /\ Cardinality(Range(l)) = Len(l)
           /\ Range(l) = last.before.set \cup Range(last.add)

\* Scenario B: [x, unrelated] and one matching scan x give a list of length 2
C10_Witness ==
    /\ last.file = FileNamed("m1.json")
    /\ last.before.set = {Ref(FileNamed("f1.nii.gz")), OtherRef}
    /\ Range(last.add) = {Ref(FileNamed("f1.nii.gz"))}
    /\ Len(disk[last.file].IntendedFor) = 2


\* the sidecars read before the run stopped at Head(u_fmaps): those of the rows
\* before u_i, and those of row u_i that come before it
RECURSIVE CountIn(_, _)
CountIn(q, f) ==
    IF q = << >> THEN 0 ELSE (IF Head(q) = f THEN 1 ELSE 0) + CountIn(Tail(q), f)

DoneInRow ==
    LET all == SortedSeq(FmapsOfRow(Rows[u_i]))
    IN SubSeq(all, 1, Len(all) - Len(u_fmaps))

PatchedBefore(f) == MatchCount(SubSeq(Rows, 1, u_i - 1), f) + CountIn(DoneInRow, f)

\* C11: a sidecar that does not parse stops the run with the JSON error: it is
\* read once and never written, every sidecar is read and written exactly as
\* often as it came before it in processing order (so none after it is
\* touched), those written keep the row's additions, and no run that meets a
\* malformed sidecar returns.
C11_MalformedAborts ==
    /\ (Direct /\ upc = "returned") => \A f \in corrupt : MatchCount(Rows, f) = 0
    /\ (Direct /\ exc = "JSONDecodeError") =>
          LET k == Head(u_fmaps)
          IN /\ upc = "raised" /\ k \in corrupt
             /\ writes[k] = 0 /\ reads[k] = 1
             /\ ViewOf(disk[k]) = runStart[k]
             /\ \A f \in FileIds \ {k} :
                   /\ reads[f] = PatchedBefore(f)
                   /\ writes[f] = PatchedBefore(f)
                   /\ PatchedBefore(f) = 0 => ViewOf(disk[f]) = runStart[f]
             /\ \A f \in Range(DoneInRow) : Range(u_add) \subseteq Range(disk[f].IntendedFor)

\* the second fieldmap of the second row is malformed: the first is patched,
\* the one of the first row too
C11_Witness ==
    /\ Direct /\ exc = "JSONDecodeError" /\ upc = "raised"
    /\ u_i = 2 /\ Head(u_fmaps) = FileNamed("m2.json")
    /\ writes[FileNamed("m1.json")] = 1 /\ writes[FileNamed("m3.json")] = 1
    /\ Range(u_add) # {}


Sessionless(rows) == rows # << >> /\ \A i \in 1..Len(rows) : ~HasKey(rows[i], "session_id")

\* the files of a subject, whatever their session
OfSubject(sub, dt, ext) ==
    {f \in FileIds : Tree[f].subject = sub /\ Tree[f].datatype = dt /\ Tree[f].extension = ext}

\* C12: a manifest without session_id goes through both functions without an
\* error for the missing key, and the reconciler then patches every fieldmap
\* of the row's subject, of any session, with every functional scan of the
\* subject.
C12_SessionOptional ==
    /\ (Sessionless(ConvRows) /\ ConvEnded) => exc # "KeyError"
    /\ (Direct /\ Sessionless(Rows)) =>
          /\ exc # "KeyError"
          /\ upc = "returned" =>
                \A i \in 1..Len(Rows) :
                    \A m \in OfSubject(Rows[i].subject_code, "fmap", "json") :
                        /\ writes[m] >= 1
                        /\ \A f \in OfSubject(Rows[i].subject_code, "func", "nii.gz") :
                              Ref(f) \in Range(disk[m].IntendedFor)


FmEnded == fpc \in {"returned", "raised", "exit1"}

\* C13: the fmriprep command creates and runs the workflow exactly when
\* dry_run is false (ending with exit status 1 when the run fails), and with
\* dry_run true returns without making a directory or running anything.
C13_RunsUnlessDryRun ==
    (entry = "fmriprep" /\ FmEnded) =>
        IF f_opts.dry_run.b
        THEN fpc = "returned" /\ f_fx = Effects({}, FALSE, FALSE)
        ELSE /\ f_fx.workflow /\ f_fx.ran
             /\ fpc = IF runFails THEN "exit1" ELSE "returned"

====
